---- MODULE Spec2Model ----
(***************************************************************************)
(* A model of print_labels.py (Totescan label printer): CSV ingestion      *)
(* (read_csvs: the per-file header state machine, the PRIMARY and EMPTY    *)
(* data-row handlers, the parent->children linking pass) and the document  *)
(* assembler (generate_pdf / main).                                        *)
(*                                                                         *)
(* Text.  A cell is a sequence of characters (one-character strings).  A   *)
(* header name and the section-marker phrase are carried as one symbol     *)
(* each, because the code only compares them whole (==, in); padding and   *)
(* a byte-order mark around them are separate characters, so strip() has   *)
(* real work to do.  None is a value distinct from every cell.             *)
(***************************************************************************)
EXTENDS Integers, Sequences, FiniteSets, TLC

VARIABLES
    pc,            \* position in read_csvs / main
    menu,          \* the rows the input files of this run are made of
    file_no,       \* index of the path being read (for path in paths)
    current_mode,  \* read_csvs: current_mode
    header_index,  \* read_csvs: header_index (name -> 0-based column)
    row,           \* read_csvs: the row of the current loop iteration
    totes,         \* read_csvs: totes (id -> Tote)
    order,         \* insertion order of the dict totes
    log,           \* history: every row read so far, with the state it met
    render_mode,   \* main: args.mode
    docs,          \* main: the documents written, each a list of labels
    exit_code,     \* main: the value returned
    pil,           \* whether "from PIL import Image" succeeded (Image)
    cache,         \* the files of CACHE_DIR: url -> thumbnail file
    calls,         \* history: the fetch_thumbnail calls made so far
    call,          \* the arguments of a text helper being called
    ret,           \* what the helper returned
    label_keys,    \* generate_pdf: sorted(totes.keys()), the list looped over
    tote_no,       \* generate_pdf: position in sorted(totes.keys())
    section,       \* draw_label: 0 for the container's items, k for child k
    item_i,        \* render_items_grid_*: i, the first item of the next row
    y,             \* draw_label: y, the vertical cursor
    page_no,       \* page breaks issued so far inside the label
    qr_drawn,      \* draw_label: qr_drawn
    step,          \* what the last step put on the canvas
    requests       \* history: network requests of the pass, by url

vars == << pc, menu, file_no, current_mode, header_index, row, totes, order,
           log, render_mode, docs, exit_code, pil, cache, calls, call, ret,
           label_keys, tote_no, section, item_i, y, page_no, qr_drawn, step,
           requests >>

-----------------------------------------------------------------------------
(* Bounds *)

MaxRows == 4       \* rows read over all files of one run
MaxFiles == 2      \* paths handed to read_csvs
MaxTotes == 3      \* containers of a model handed to generate_pdf (SpecDoc)

-----------------------------------------------------------------------------
(* Characters and strings *)

E == << >>                       \* the empty string
None == << "<None>" >>           \* Python None
BOM == "<U+FEFF>"                \* the byte-order mark character
TAB == "\t"
Whitespace == {" ", TAB}         \* what str.strip() and str.split() remove

Range(s) == { s[i] : i \in 1..Len(s) }

SetMin(S) == CHOOSE a \in S : \A b \in S : a <= b
SetMax(S) == CHOOSE a \in S : \A b \in S : a >= b

\* str.strip(chars): drop leading and trailing characters of the set
StripChars(s, chars) ==
    LET keep == { i \in 1..Len(s) : s[i] \notin chars }
    IN  IF keep = {} THEN E ELSE SubSeq(s, SetMin(keep), SetMax(keep))

Strip(s) == StripChars(s, Whitespace)

\* Python truthiness of an Optional[str]
Truthy(s) == s # E /\ s # None

\* str.split(): the maximal runs of non-whitespace characters
RECURSIVE SplitFrom(_, _, _)
SplitFrom(s, i, cur) ==
    IF i > Len(s) THEN (IF cur = E THEN << >> ELSE << cur >>)
    ELSE IF s[i] \in Whitespace
         THEN (IF cur = E THEN SplitFrom(s, i + 1, E)
                          ELSE << cur >> \o SplitFrom(s, i + 1, E))
         ELSE SplitFrom(s, i + 1, Append(cur, s[i]))

Split(s) == SplitFrom(s, 1, E)

StartsWith(s, p) == Len(s) >= Len(p) /\ SubSeq(s, 1, Len(p)) = p

HTTP == << "h", "t", "t", "p" >>

Digits == << "0", "1", "2", "3", "4", "5", "6", "7", "8", "9" >>
IsDigit(ch) == ch \in Range(Digits)
DigitVal(ch) == (CHOOSE i \in 1..10 : Digits[i] = ch) - 1

RECURSIVE DigitsVal(_, _)
DigitsVal(s, acc) ==
    IF s = E THEN acc ELSE DigitsVal(Tail(s), 10 * acc + DigitVal(Head(s)))

\* int(str): surrounding whitespace, an optional sign, then decimal digits;
\* anything else raises ValueError (ok = FALSE)
int(s) ==
    LET t == Strip(s)
        signed == t # E /\ Head(t) \in {"-", "+"}
        body == IF signed THEN Tail(t) ELSE t
        ok == body # E /\ \A i \in 1..Len(body) : IsDigit(body[i])
        mag == IF ok THEN DigitsVal(body, 0) ELSE 0
    IN  [ok |-> ok,
         val |-> IF signed /\ Head(t) = "-" THEN 0 - mag ELSE mag]

\* code points, for the order sorted() puts strings in
Ord(ch) ==
    CASE ch = " " -> 32
      [] ch = "+" -> 43
      [] ch = "-" -> 45
      [] IsDigit(ch) -> 48 + DigitVal(ch)
      [] ch = "A" -> 65
      [] ch = "B" -> 66
      [] ch = "L" -> 76
      [] ch = "M" -> 77
      [] ch = "P" -> 80
      [] ch = "Q" -> 81
      [] ch = "R" -> 82
      [] ch = "T" -> 84
      [] ch = "W" -> 87
      [] ch = "d" -> 100
      [] ch = "h" -> 104
      [] ch = "p" -> 112
      [] ch = "t" -> 116
      [] ch = "x" -> 120
      [] OTHER -> 65279

\* s < t in Python's string order (lexicographic by code point)
RECURSIVE StrLess(_, _)
StrLess(s, t) ==
    IF t = E THEN FALSE
    ELSE IF s = E THEN TRUE
    ELSE IF Head(s) = Head(t) THEN StrLess(Tail(s), Tail(t))
    ELSE Ord(Head(s)) < Ord(Head(t))

-----------------------------------------------------------------------------
(* Headers: PRIMARY_HEADER, EMPTY_HEADER, sniff_headers *)

PROFILE == << "PROFILE" >>
TOTE_ID == << "TOTE ID" >>
PARENT_TOTE_ID == << "PARENT TOTE ID" >>
QRDATA == << "QRDATA" >>
TOTE_LOCATION == << "TOTE LOCATION" >>
TOTE_TITLE == << "TOTE TITLE" >>
ITEM_TITLE == << "ITEM TITLE" >>
ITEM_DESCRIPTION == << "ITEM DESCRIPTION" >>
UPC == << "UPC" >>
ITEM_QUANTITY == << "ITEM QUANTITY" >>
IMAGES == << "IMAGES" >>
CREATED == << "CREATED" >>
UPDATED == << "UPDATED" >>
ITEM_URL == << "ITEM URL" >>

PRIMARY_HEADER ==
    << PROFILE, TOTE_ID, PARENT_TOTE_ID, QRDATA, TOTE_LOCATION, TOTE_TITLE,
       ITEM_TITLE, ITEM_DESCRIPTION, UPC, ITEM_QUANTITY, IMAGES, CREATED,
       UPDATED, ITEM_URL >>

EMPTY_HEADER == << PROFILE, TOTE_ID, TOTE_LOCATION, TOTE_TITLE >>

\* the phrase the section switcher is recognised by
MARKER_TEXT == "Empty ToteScan labels"

\* norm = [c.strip().strip(BOM) for c in line]
Norm(line) == [ i \in 1..Len(line) |-> StripChars(Strip(line[i]), {BOM}) ]

sniff_headers(line) ==
    LET norm == Norm(line)
    IN  IF /\ Len(norm) >= Len(PRIMARY_HEADER)
           /\ \A h \in {TOTE_ID, QRDATA, ITEM_TITLE, ITEM_QUANTITY} :
                 h \in Range(norm)
        THEN "PRIMARY"
        ELSE IF /\ Len(norm) = Len(EMPTY_HEADER)
                /\ \A h \in Range(EMPTY_HEADER) : h \in Range(norm)
             THEN "EMPTY"
             ELSE "UNKNOWN"

\* not any(cell.strip() for cell in row)
IsBlank(r) == \A i \in 1..Len(r) : Strip(r[i]) = E

\* len(row) == 1 and "Empty ToteScan labels" in row[0]
IsMarker(r) == Len(r) = 1 /\ MARKER_TEXT \in Range(r[1])

\* all(h in row for h in EMPTY_HEADER): the raw cells, no trimming
ManualEmptyMatch(r) == \A h \in Range(EMPTY_HEADER) : h \in Range(r)

\* {name: row.index(name) for name in row}: raw cell -> first 0-based column
BuildHeaderIndex(r) ==
    [ name \in Range(r) |-> SetMin({ i \in 1..Len(r) : r[i] = name }) - 1 ]

NoHeader == [ name \in {} |-> 0 ]

\* header_index.get(name, default)
Get(hdr, name, default) == IF name \in DOMAIN hdr THEN hdr[name] ELSE default

Has(hdr, name) == name \in DOMAIN hdr

\* row[i] raises IndexError unless 0 <= i < len(row)
InRange(r, i) == i + 1 <= Len(r)
At(r, i) == r[i + 1]

-----------------------------------------------------------------------------
(* Record model: Tote, ToteItem, Tote.add_item *)

Tote(id) ==
    [tote_id |-> id, title |-> E, location |-> E, qrdata |-> None,
     items |-> << >>, parent_id |-> None, children |-> << >>]

ToteItem(title, description, quantity, image_url) ==
    [title |-> title, description |-> description, quantity |-> quantity,
     image_url |-> image_url]

\* qty = int(quantity) if quantity not in (None, "", " ") else 1,
\* and 1 when int() raises
Quantity(quantity) ==
    IF quantity \in {None, E, << " " >>} THEN 1
    ELSE IF int(quantity).ok THEN int(quantity).val ELSE 1

\* a variant of add_item without the both-empty guard
add_item_unguarded(items, title, description, quantity, image_url) ==
    Append(items, ToteItem(Strip(title), Strip(description),
                           Quantity(quantity), image_url))

\* Tote.add_item, on the item list of the tote
add_item(items, title, description, quantity, image_url) ==
    IF title = E /\ description = E
    THEN items
    ELSE Append(items, ToteItem(Strip(title), Strip(description),
                                Quantity(quantity), image_url))

\* the first whitespace-separated part of IMAGES that starts with "http"
FirstImage(images_field) ==
    LET parts == SelectSeq(Split(images_field),
                           LAMBDA p : StartsWith(p, HTTP))
    IN  IF images_field # E /\ parts # << >> THEN parts[1] ELSE None

-----------------------------------------------------------------------------
(* read_csvs: the dict of totes *)

NoTotes == [ id \in {} |-> Tote(id) ]

Put(ts, id, t) == [ x \in DOMAIN ts \cup {id} |-> IF x = id THEN t ELSE ts[x] ]

\* read_csvs.get_or_create
get_or_create(ts, ord, id) ==
    IF id \in DOMAIN ts
    THEN [totes |-> ts, order |-> ord]
    ELSE [totes |-> Put(ts, id, Tote(id)), order |-> Append(ord, id)]

\* a variant of totes_get that adds the container when it is missing
totes_get_creating(ts, ord, id) == get_or_create(ts, ord, id)

\* totes.get(id): a lookup, the dict is left as it is
totes_get(ts, ord, id) == [totes |-> ts, order |-> ord]

-----------------------------------------------------------------------------
(* read_csvs: the data-row handlers.  A handler returns the dict, its       *)
(* insertion order and an outcome: "ok", "skip" (continue) or "raise" (an   *)
(* IndexError that nothing catches; what was assigned before it stays).     *)

\* row[header_index.get("TOTE ID")] inside try/except: a missing key gives
\* row[None] (TypeError), a short row IndexError; both skip the row
HasId(hdr, r) == Has(hdr, TOTE_ID) /\ InRange(r, hdr[TOTE_ID])
IdCell(hdr, r) == At(r, hdr[TOTE_ID])

\* a variant of first_write where the later non-empty value wins
last_write(cur, r, hdr, name) ==
    IF ~InRange(r, Get(hdr, name, 0))
    THEN [raised |-> TRUE, val |-> cur]
    ELSE LET new == Strip(At(r, Get(hdr, name, 0)))
         IN  [raised |-> FALSE, val |-> IF new # E THEN new ELSE cur]

\* field = field or row[header_index.get(name, 0)].strip()
\* (the cell is read only while the field is falsy)
first_write(cur, r, hdr, name) ==
    IF Truthy(cur)
    THEN [raised |-> FALSE, val |-> cur]
    ELSE IF ~InRange(r, Get(hdr, name, 0))
         THEN [raised |-> TRUE, val |-> cur]
         ELSE [raised |-> FALSE, val |-> Strip(At(r, Get(hdr, name, 0)))]

\* p_id: the PARENT TOTE ID cell, "" when the header has no such column or
\* the row is too short (try/except)
ParentCell(hdr, r) ==
    IF Has(hdr, PARENT_TOTE_ID) /\ InRange(r, hdr[PARENT_TOTE_ID])
    THEN Strip(At(r, hdr[PARENT_TOTE_ID]))
    ELSE E

\* a variant of record_parent that also links the child at once, unchecked
record_parent_eager(ts, id, p_id) ==
    IF p_id = E THEN ts
    ELSE LET ts1 == [ts EXCEPT ![id].parent_id = p_id]
         IN  IF p_id \in DOMAIN ts1
             THEN [ts1 EXCEPT ![p_id].children = Append(@, id)]
             ELSE ts1

\* a variant of record_parent where the first parent id is kept
record_parent_first(ts, id, p_id) ==
    IF p_id # E /\ ~Truthy(ts[id].parent_id)
    THEN [ts EXCEPT ![id].parent_id = p_id]
    ELSE ts

\* if p_id: tote.parent_id = p_id
record_parent(ts, id, p_id) ==
    IF p_id # E THEN [ts EXCEPT ![id].parent_id = p_id] ELSE ts

ItemColumns == << ITEM_TITLE, ITEM_DESCRIPTION, ITEM_QUANTITY, IMAGES >>

\* the four item cells are read (each with default column 0) before add_item
ItemCellsInRange(hdr, r) ==
    \A i \in 1..Len(ItemColumns) : InRange(r, Get(hdr, ItemColumns[i], 0))

ItemCell(hdr, r, name) == Strip(At(r, Get(hdr, name, 0)))

\* lines 160-186: a data row in mode PRIMARY
primary_row(ts, ord, hdr, r) ==
    IF ~HasId(hdr, r)
    THEN [totes |-> ts, order |-> ord, outcome |-> "skip"]
    ELSE
    LET id == IdCell(hdr, r)
        goc == get_or_create(ts, ord, id)
        ts0 == goc.totes
        wt == first_write(ts0[id].title, r, hdr, TOTE_TITLE)
        ts1 == [ts0 EXCEPT ![id].title = wt.val]
        wl == first_write(ts1[id].location, r, hdr, TOTE_LOCATION)
        ts2 == [ts1 EXCEPT ![id].location = wl.val]
        wq == first_write(ts2[id].qrdata, r, hdr, QRDATA)
        ts3 == [ts2 EXCEPT ![id].qrdata = IF wq.val = E THEN None ELSE wq.val]
        ts4 == record_parent(ts3, id, ParentCell(hdr, r))
        ts5 == [ts4 EXCEPT ![id].items =
                   add_item(@, ItemCell(hdr, r, ITEM_TITLE),
                               ItemCell(hdr, r, ITEM_DESCRIPTION),
                               ItemCell(hdr, r, ITEM_QUANTITY),
                               FirstImage(ItemCell(hdr, r, IMAGES)))]
        out(t, o) == [totes |-> t, order |-> goc.order, outcome |-> o]
    IN  IF wt.raised THEN out(ts0, "raise")
        ELSE IF wl.raised THEN out(ts1, "raise")
        ELSE IF wq.raised THEN out(ts2, "raise")
        ELSE IF ~ItemCellsInRange(hdr, r) THEN out(ts4, "raise")
        ELSE out(ts5, "ok")

\* lines 187-199: a data row in mode EMPTY
empty_row(ts, ord, hdr, r) ==
    IF ~HasId(hdr, r)
    THEN [totes |-> ts, order |-> ord, outcome |-> "skip"]
    ELSE
    LET id == IdCell(hdr, r)
        got == totes_get(ts, ord, id)
        ts0 == got.totes
        wt == first_write(ts0[id].title, r, hdr, TOTE_TITLE)
        ts1 == [ts0 EXCEPT ![id].title = wt.val]
        wl == first_write(ts1[id].location, r, hdr, TOTE_LOCATION)
        ts2 == [ts1 EXCEPT ![id].location = wl.val]
        out(t, o) == [totes |-> t, order |-> got.order, outcome |-> o]
    IN  IF id \notin DOMAIN ts0 THEN out(ts0, "skip")
        ELSE IF wt.raised THEN out(ts0, "raise")
        ELSE IF wl.raised THEN out(ts1, "raise")
        ELSE out(ts2, "ok")

-----------------------------------------------------------------------------
(* read_csvs: lines 204-212, the parent -> children links *)

\* a variant of link_one that makes a stub for a parent the dict lacks
link_one_stub(ts, ord, id) ==
    LET p == ts[id].parent_id
        got == get_or_create(ts, ord, p)
    IN  IF ~Truthy(p) THEN [totes |-> ts, order |-> ord]
        ELSE IF id \in Range(got.totes[p].children) THEN got
        ELSE [got EXCEPT !.totes[p].children = Append(@, id)]

\* one iteration of "for t in list(totes.values())"
link_one(ts, ord, id) ==
    LET p == ts[id].parent_id
        got == totes_get(ts, ord, p)
    IN  IF ~Truthy(p) THEN [totes |-> ts, order |-> ord]
        ELSE IF p \notin DOMAIN got.totes THEN got
        ELSE IF id \in Range(got.totes[p].children) THEN got
        ELSE [got EXCEPT !.totes[p].children = Append(@, id)]

\* the whole loop, over the values as they were when it started
RECURSIVE link_from(_, _, _)
link_from(ts, ord, todo) ==
    IF todo = << >> THEN [totes |-> ts, order |-> ord]
    ELSE LET next == link_one(ts, ord, Head(todo))
         IN  link_from(next.totes, next.order, Tail(todo))

build_links(ts, ord) == link_from(ts, ord, ord)

-----------------------------------------------------------------------------
(* Input: the rows a run's files are made of *)

T1 == << "T", "1" >>
T2 == << "T", "2" >>
T9 == << "T", "9" >>
P == << "p" >>

\* a row of the primary table, in the column order of PRIMARY_HEADER
PR(id, parent, qr, loc, title, item, desc, qty, images) ==
    << P, id, parent, qr, loc, title, item, desc, E, qty, images, E, E, E >>

RowT1 == PR(T1, E, <<"Q">>, <<"L">>, <<"A">>, <<"W">>, E, <<"3">>, E)
RowT1Again ==
    PR(T1, E, <<"R">>, <<"M">>, <<" ", "B", " ">>, E, <<"d">>, E,
       <<"x", " ", "h", "t", "t", "p", "x">>)
RowT1Bare == PR(T1, E, E, E, E, <<"W">>, E, <<"1", "2">>, E)
RowT2InT1 == PR(T2, T1, E, E, <<"B">>, <<"W">>, E, <<"0">>, E)
RowT2InT9 ==
    PR(T2, <<" ", "T", "9">>, E, E, E, E, <<"d">>, <<"-", "2">>, E)
RowT2NoParent == PR(T2, <<" ">>, E, E, E, <<" ">>, <<" ">>, <<"x">>, E)
RowT1InT2 == PR(T1, T2, E, E, E, <<"W">>, <<"d">>, <<"+", "1">>, E)
RowNoId == PR(E, E, E, E, <<"A">>, <<"W">>, E, <<"3">>, E)
RowBlankId == PR(<<" ">>, E, E, E, E, <<"W">>, E, E, E)
RowShort2 == << P, T1 >>
RowShort7 == SubSeq(RowT1, 1, 7)
RowOneCell == << P >>
ERowT1 == << P, T1, <<"M">>, <<"B">> >>
ERowT2 == << P, T2, <<"L">>, <<"A">> >>
MarkerRow == << << MARKER_TEXT, " ", "x" >> >>
BlankRow == << E, << " " >> >>

\* a reduced header with one more column: matched by the subset test only
EmptyHeaderWide == EMPTY_HEADER \o << << "x" >> >>

\* a primary header with a byte-order mark and padding around two names
PaddedHeader ==
    [PRIMARY_HEADER EXCEPT ![1] = << BOM, "PROFILE" >>,
                           ![6] = << " ", "TOTE TITLE" >>]

\* a primary header whose title and description columns have other names
HeaderNoTitle ==
    [PRIMARY_HEADER EXCEPT ![6] = << "N" >>, ![8] = << "d" >>]

Menus ==
    { {PRIMARY_HEADER, RowT1, RowT1Again, RowT2InT1},
      {PRIMARY_HEADER, RowT2InT1, RowT2InT9, RowT2NoParent},
      {PRIMARY_HEADER, RowT1InT2, RowT2InT9, RowT2InT1},
      {PRIMARY_HEADER, RowNoId, RowBlankId, RowT1},
      {PRIMARY_HEADER, RowShort2, RowShort7, RowT1},
      {PRIMARY_HEADER, EMPTY_HEADER, RowT1Bare, ERowT1},
      {PRIMARY_HEADER, EMPTY_HEADER, RowT1, ERowT2},
      {PRIMARY_HEADER, EMPTY_HEADER, RowT1Bare, RowShort2},
      {PRIMARY_HEADER, MarkerRow, EmptyHeaderWide, ERowT1},
      {PaddedHeader, BlankRow, RowT1, RowOneCell},
      {HeaderNoTitle, RowT1, RowT1Bare} }

-----------------------------------------------------------------------------
(* read_csvs as a state machine: one action per branch of the row loop *)

Entry(r, kind) ==
    [file |-> file_no, row |-> r, mode |-> current_mode,
     hdr |-> header_index, kind |-> kind]

\* the row reaches "Process data rows" (line 159)
IsData(r) ==
    /\ ~IsBlank(r)
    /\ ~IsMarker(r)
    /\ sniff_headers(r) = "UNKNOWN"
    /\ ~(current_mode = "EMPTY_PENDING_HEADER" /\ ManualEmptyMatch(r))

Reading == pc = "read" /\ Len(log) < MaxRows

\* no text helper is called on its own in this run
HelperUnused == call = << >> /\ ret = << >>

HelperIdle == UNCHANGED << call, ret >>

NoStep == [kind |-> "none", events |-> << >>]

\* no label is being drawn in this run
LabelUnused ==
    /\ label_keys = << >>
    /\ tote_no = 0
    /\ section = 0
    /\ item_i = 0
    /\ y = 0
    /\ page_no = 0
    /\ qr_drawn = FALSE
    /\ step = NoStep
    /\ requests = << >>

LabelIdle ==
    UNCHANGED << label_keys, tote_no, section, item_i, y, page_no, qr_drawn,
                 step, requests >>

\* no thumbnail is resolved in this run
ThumbUnused ==
    /\ pil = TRUE /\ cache = << >> /\ calls = << >>
    /\ HelperUnused
    /\ LabelUnused

\* the thumbnail cache is not touched outside fetch_thumbnail
ThumbIdle == UNCHANGED << pil, cache, calls >> /\ HelperIdle /\ LabelIdle

MainIdle == UNCHANGED << menu, render_mode, docs, exit_code >> /\ ThumbIdle

\* lines 133-134
SkipBlank ==
    /\ Reading
    /\ \E r \in menu :
        /\ IsBlank(r)
        /\ row' = r
        /\ log' = Append(log, Entry(r, "blank"))
    /\ UNCHANGED << pc, file_no, current_mode, header_index, totes, order >>
    /\ MainIdle

\* lines 137-140
SectionMarker ==
    /\ Reading
    /\ \E r \in menu :
        /\ ~IsBlank(r) /\ IsMarker(r)
        /\ row' = r
        /\ log' = Append(log, Entry(r, "marker"))
    /\ current_mode' = "EMPTY_PENDING_HEADER"
    /\ header_index' = NoHeader
    /\ UNCHANGED << pc, file_no, totes, order >>
    /\ MainIdle

\* lines 143-147
PrimaryHeaderRow ==
    /\ Reading
    /\ \E r \in menu :
        /\ ~IsBlank(r) /\ ~IsMarker(r) /\ sniff_headers(r) = "PRIMARY"
        /\ row' = r
        /\ log' = Append(log, Entry(r, "header"))
        /\ current_mode' = "PRIMARY"
        /\ header_index' = BuildHeaderIndex(r)
    /\ UNCHANGED << pc, file_no, totes, order >>
    /\ MainIdle

\* lines 148-151
EmptyHeaderRow ==
    /\ Reading
    /\ \E r \in menu :
        /\ ~IsBlank(r) /\ ~IsMarker(r) /\ sniff_headers(r) = "EMPTY"
        /\ row' = r
        /\ log' = Append(log, Entry(r, "header"))
        /\ current_mode' = "EMPTY"
        /\ header_index' = BuildHeaderIndex(r)
    /\ UNCHANGED << pc, file_no, totes, order >>
    /\ MainIdle

\* lines 152-157
PendingHeaderRow ==
    /\ Reading
    /\ current_mode = "EMPTY_PENDING_HEADER"
    /\ \E r \in menu :
        /\ ~IsBlank(r) /\ ~IsMarker(r) /\ sniff_headers(r) = "UNKNOWN"
        /\ ManualEmptyMatch(r)
        /\ row' = r
        /\ log' = Append(log, Entry(r, "header"))
        /\ current_mode' = "EMPTY"
        /\ header_index' = BuildHeaderIndex(r)
    /\ UNCHANGED << pc, file_no, totes, order >>
    /\ MainIdle

\* lines 160-186
PrimaryDataRow ==
    /\ Reading
    /\ current_mode = "PRIMARY"
    /\ \E r \in menu :
        /\ IsData(r)
        /\ row' = r
        /\ log' = Append(log, Entry(r, "data"))
        /\ LET res == primary_row(totes, order, header_index, r)
           IN  /\ totes' = res.totes
               /\ order' = res.order
               /\ pc' = IF res.outcome = "raise" THEN "raised" ELSE pc
    /\ UNCHANGED << file_no, current_mode, header_index >>
    /\ MainIdle

\* lines 187-199
EmptyDataRow ==
    /\ Reading
    /\ current_mode = "EMPTY"
    /\ \E r \in menu :
        /\ IsData(r)
        /\ row' = r
        /\ log' = Append(log, Entry(r, "data"))
        /\ LET res == empty_row(totes, order, header_index, r)
           IN  /\ totes' = res.totes
               /\ order' = res.order
               /\ pc' = IF res.outcome = "raise" THEN "raised" ELSE pc
    /\ UNCHANGED << file_no, current_mode, header_index >>
    /\ MainIdle

\* lines 200-202
IgnoredRow ==
    /\ Reading
    /\ current_mode \in {"UNKNOWN", "EMPTY_PENDING_HEADER"}
    /\ \E r \in menu :
        /\ IsData(r)
        /\ row' = r
        /\ log' = Append(log, Entry(r, "data"))
    /\ UNCHANGED << pc, file_no, current_mode, header_index, totes, order >>
    /\ MainIdle

\* a variant of NextFile that keeps the state the last file ended in
NextFile_carrying ==
    /\ pc = "read"
    /\ file_no < MaxFiles
    /\ file_no' = file_no + 1
    /\ UNCHANGED << pc, row, totes, order, log, current_mode, header_index >>
    /\ MainIdle

\* lines 126-130: the next path; mode and header mapping start over
NextFile ==
    /\ pc = "read"
    /\ file_no < MaxFiles
    /\ file_no' = file_no + 1
    /\ current_mode' = "UNKNOWN"
    /\ header_index' = NoHeader
    /\ UNCHANGED << pc, row, totes, order, log >>
    /\ MainIdle

\* lines 204-214: after the last path, link and return
LinkAndReturn ==
    /\ pc = "read"
    /\ LET res == build_links(totes, order)
       IN  /\ totes' = res.totes
           /\ order' = res.order
    /\ pc' = "returned"
    /\ UNCHANGED << file_no, current_mode, header_index, row, log >>
    /\ MainIdle

Init ==
    /\ pc = "read"
    /\ menu \in Menus
    /\ file_no = 1
    /\ current_mode = "UNKNOWN"
    /\ header_index = NoHeader
    /\ row = << >>
    /\ totes = NoTotes
    /\ order = << >>
    /\ log = << >>
    /\ render_mode = "unset"
    /\ docs = << >>
    /\ exit_code = -1
    /\ ThumbUnused

Next ==
    \/ SkipBlank
    \/ SectionMarker
    \/ PrimaryHeaderRow
    \/ EmptyHeaderRow
    \/ PendingHeaderRow
    \/ PrimaryDataRow
    \/ EmptyDataRow
    \/ IgnoredRow
    \/ NextFile
    \/ LinkAndReturn

Spec == Init /\ [][Next]_vars

-----------------------------------------------------------------------------
(* Vocabulary of the claims, read off the history *)

Last(q) == q[Len(q)]

\* q[k] is a data row that met mode m and carries container id `id`
CarriesIn(q, k, m, id) ==
    /\ q[k].kind = "data"
    /\ q[k].mode = m
    /\ HasId(q[k].hdr, q[k].row)
    /\ IdCell(q[k].hdr, q[k].row) = id

Carries(k, m, id) == CarriesIn(log, k, m, id)

\* the ids carried by the PRIMARY data rows read so far
PrimaryIds ==
    { IdCell(log[k].hdr, log[k].row) :
        k \in { j \in 1..Len(log) :
                  /\ log[j].kind = "data"
                  /\ log[j].mode = "PRIMARY"
                  /\ HasId(log[j].hdr, log[j].row) } }

\* the step just taken read a data row
ReadsData == log' # log /\ Last(log').kind = "data"

NoDuplicates(q) == \A i, j \in 1..Len(q) : q[i] = q[j] => i = j

\* C1: a data row processed in EMPTY state never adds a container (one whose
\* id is not in the model leaves the model unchanged), and a container only
\* ever appears in the step of a PRIMARY-state data row carrying its id.
C1_EmptyRowNeverCreates ==
    [][ /\ (ReadsData /\ current_mode = "EMPTY") =>
            /\ DOMAIN totes' = DOMAIN totes
            /\ ( \/ ~HasId(header_index, row')
                 \/ IdCell(header_index, row') \notin DOMAIN totes )
               => (totes' = totes /\ order' = order)
        /\ \A id \in DOMAIN totes' \ DOMAIN totes :
            /\ ReadsData
            /\ CarriesIn(log', Len(log'), "PRIMARY", id) ]_vars

\* C1 witness: an EMPTY-state data row for an id the non-empty model lacks
C1_Witness ==
    /\ log # << >>
    /\ Last(log).kind = "data"
    /\ Last(log).mode = "EMPTY"
    /\ HasId(Last(log).hdr, Last(log).row)
    /\ IdCell(Last(log).hdr, Last(log).row) \notin DOMAIN totes
    /\ DOMAIN totes # {}

\* C2: every container of the model read_csvs returns has a non-empty id.
C2_IdsNonEmpty ==
    pc = "returned" => \A id \in DOMAIN totes : totes[id].tote_id # E

\* C3: after ingestion every child listed by a container P is a container
\* whose parent_id is P's id; a container whose parent_id names no container
\* is in no children list, and the model holds no container but those the
\* PRIMARY data rows named (none is made up for a missing parent).
C3_LinksOnlyBetweenContainers ==
    pc = "returned" =>
        /\ \A p \in DOMAIN totes : \A c \in Range(totes[p].children) :
              /\ c \in DOMAIN totes
              /\ totes[c].parent_id = totes[p].tote_id
        /\ \A t \in DOMAIN totes :
              totes[t].parent_id \notin DOMAIN totes =>
                 \A p \in DOMAIN totes : t \notin Range(totes[p].children)
        /\ DOMAIN totes = PrimaryIds

\* C3 witness: a returned model with a link and with a dangling parent id
C3_Witness ==
    /\ pc = "returned"
    /\ \E p \in DOMAIN totes : totes[p].children # << >>
    /\ \E t \in DOMAIN totes :
          Truthy(totes[t].parent_id) /\ totes[t].parent_id \notin DOMAIN totes

\* C4: no children list holds the same child id twice.
C4_ChildrenHaveNoDuplicates ==
    \A p \in DOMAIN totes : NoDuplicates(totes[p].children)

\* C4 witness: two PRIMARY rows gave the same id the same parent, and the
\* returned model lists that child under that parent
C4_Witness ==
    /\ pc = "returned"
    /\ \E k, j \in 1..Len(log) : \E c, pp \in DOMAIN totes :
          /\ k < j
          /\ Carries(k, "PRIMARY", c) /\ Carries(j, "PRIMARY", c)
          /\ ParentCell(log[k].hdr, log[k].row) = pp
          /\ ParentCell(log[j].hdr, log[j].row) = pp
          /\ c # pp
          /\ c \in Range(totes[pp].children)

\* C5: no data row aborts ingestion.
C5_NoRowAborts == pc # "raised"

\* C6: every item of the model has a quantity >= 1.
C6_QuantitiesPositive ==
    \A id \in DOMAIN totes : \A i \in 1..Len(totes[id].items) :
        totes[id].items[i].quantity >= 1

\* the fields that are written once
OnceFields == {TOTE_TITLE, TOTE_LOCATION, QRDATA}

FieldOf(t, name) ==
    CASE name = TOTE_TITLE -> t.title
      [] name = TOTE_LOCATION -> t.location
      [] name = QRDATA -> t.qrdata

\* row q[k] is applied to container id for field `name`: a PRIMARY data row
\* carrying the id, or (title and location only) an EMPTY data row carrying
\* it once a PRIMARY row has made the container
AppliedIn(q, k, id, name) ==
    \/ CarriesIn(q, k, "PRIMARY", id)
    \/ /\ name # QRDATA
       /\ CarriesIn(q, k, "EMPTY", id)
       /\ \E j \in 1..(k - 1) : CarriesIn(q, j, "PRIMARY", id)

\* the trimmed value row q[k] holds in the column its header mapping gives
\* the field ("" when the row has no such cell)
SeenIn(q, k, name) ==
    LET c == Get(q[k].hdr, name, 0)
    IN  IF InRange(q[k].row, c) THEN Strip(At(q[k].row, c)) ELSE E

\* the first non-empty value seen for the container, in row order
FirstSeenIn(q, id, name) ==
    LET ks == { k \in 1..Len(q) :
                  AppliedIn(q, k, id, name) /\ SeenIn(q, k, name) # E }
    IN  IF ks # {} THEN SeenIn(q, SetMin(ks), name)
        ELSE IF name = QRDATA THEN None ELSE E

LastParentIn(q, id) ==
    LET ks == { k \in 1..Len(q) :
                  /\ CarriesIn(q, k, "PRIMARY", id)
                  /\ ParentCell(q[k].hdr, q[k].row) # E }
    IN  IF ks = {} THEN None
        ELSE ParentCell(q[SetMax(ks)].hdr, q[SetMax(ks)].row)

\* C8: parent id is last-write-wins: in the returned model parent_id is the
\* parent-id cell of the last PRIMARY data row for the container whose cell
\* is non-empty (absent if none), and the children lists are exactly what
\* these final values give; none is filled before the files are all read.
C8_ParentLastWriteWins ==
    /\ pc = "returned" =>
          /\ \A id \in DOMAIN totes :
                totes[id].parent_id = LastParentIn(log, id)
          /\ \A p, c \in DOMAIN totes :
                c \in Range(totes[p].children) <=> totes[c].parent_id = p
    /\ pc = "read" => \A p \in DOMAIN totes : totes[p].children = << >>

\* C8 witness: two different non-empty parent ids, then an empty one
C8_Witness ==
    /\ pc = "returned"
    /\ \E id \in DOMAIN totes : \E k, j, l \in 1..Len(log) :
          /\ k < j /\ j < l
          /\ Carries(k, "PRIMARY", id)
          /\ Carries(j, "PRIMARY", id)
          /\ Carries(l, "PRIMARY", id)
          /\ ParentCell(log[k].hdr, log[k].row) # E
          /\ ParentCell(log[j].hdr, log[j].row) # E
          /\ ParentCell(log[k].hdr, log[k].row)
                # ParentCell(log[j].hdr, log[j].row)
          /\ ParentCell(log[l].hdr, log[l].row) = E

\* the item title and description cells of the row are both blank
BlankItem(hdr, r) ==
    /\ ItemCellsInRange(hdr, r)
    /\ ItemCell(hdr, r, ITEM_TITLE) = E
    /\ ItemCell(hdr, r, ITEM_DESCRIPTION) = E

\* C9: every item has a non-empty title or a non-empty description, and a
\* PRIMARY row whose item title and description are both blank leaves every
\* item sequence as it was.
C9_NoEmptyItem ==
    [][ /\ \A id \in DOMAIN totes' : \A i \in 1..Len(totes'[id].items) :
              \/ totes'[id].items[i].title # E
              \/ totes'[id].items[i].description # E
        /\ ( /\ ReadsData
             /\ current_mode = "PRIMARY"
             /\ BlankItem(header_index, row') ) =>
              \A id \in DOMAIN totes' :
                  totes'[id].items =
                      IF id \in DOMAIN totes THEN totes[id].items ELSE << >>
      ]_vars

\* C9 witness: a blank-item PRIMARY row was read for a container that
\* already had an item
C9_Witness ==
    /\ pc = "read"
    /\ log # << >>
    /\ Last(log).kind = "data"
    /\ Last(log).mode = "PRIMARY"
    /\ HasId(Last(log).hdr, row)
    /\ BlankItem(Last(log).hdr, row)
    /\ IdCell(Last(log).hdr, row) \in DOMAIN totes
    /\ totes[IdCell(Last(log).hdr, row)].items # << >>

-----------------------------------------------------------------------------
(* Document assembler: generate_pdf and the part of main after read_csvs *)

\* the label draw_label adds to the canvas: the container it is for and the
\* item grids it holds (its own, then one per child: lines 540-573)
draw_label(ts, id, mode) ==
    [tote_id |-> id, mode |-> mode,
     sections |-> << id >> \o ts[id].children]

\* the place of keys[i] in the sorted list, counted from 0: the number of
\* keys that come before it (a smaller key, or an equal one met earlier)
PlaceOf(keys) ==
    [ i \in 1..Len(keys) |->
        Cardinality({ j \in 1..Len(keys) :
                        \/ StrLess(keys[j], keys[i])
                        \/ keys[j] = keys[i] /\ j < i }) ]

\* a variant of sorted that keeps the order it is given
unsorted(keys) == keys

\* the keys, each at its place
Placed(keys, place) ==
    [ r \in 1..Len(keys) |->
        keys[CHOOSE i \in 1..Len(keys) : place[i] = r - 1] ]

\* sorted(totes.keys())
sorted(keys) == Placed(keys, PlaceOf(keys))

\* generate_pdf: one label per key, in sorted order, on one canvas
generate_pdf(ts, ord, mode) ==
    LET keys == sorted(ord)
    IN  [mode |-> mode,
         labels |-> [ i \in 1..Len(keys) |-> draw_label(ts, keys[i], mode) ]]

ReadIdle ==
    /\ UNCHANGED << menu, file_no, current_mode, header_index, row, totes,
                    order, log >>
    /\ ThumbIdle

\* lines 623-625
MainNoTotes ==
    /\ pc = "returned"
    /\ DOMAIN totes = {}
    /\ exit_code' = 1
    /\ pc' = "exit"
    /\ UNCHANGED << render_mode, docs >>
    /\ ReadIdle

\* lines 628-642: the first (or only) generate_pdf call
MainGenerate ==
    /\ pc = "returned"
    /\ DOMAIN totes # {}
    /\ docs' = Append(docs, generate_pdf(totes, order,
                         IF render_mode = "text" THEN "text" ELSE "thumbs"))
    /\ IF render_mode = "both"
       THEN pc' = "second" /\ UNCHANGED exit_code
       ELSE pc' = "exit" /\ exit_code' = 0
    /\ UNCHANGED render_mode
    /\ ReadIdle

\* line 634: the text document of mode both
MainGenerateSecond ==
    /\ pc = "second"
    /\ docs' = Append(docs, generate_pdf(totes, order, "text"))
    /\ pc' = "exit"
    /\ exit_code' = 0
    /\ UNCHANGED render_mode
    /\ ReadIdle

\* lines 643-645: a generate_pdf call raises (the output cannot be written)
MainGenerateFails ==
    /\ \/ pc = "returned" /\ DOMAIN totes # {}
       \/ pc = "second"
    /\ exit_code' = 3
    /\ pc' = "exit"
    /\ UNCHANGED << render_mode, docs >>
    /\ ReadIdle

IdPool == { T1, T2, << "T" >>, << " ", "T", "1" >> }

\* the models generate_pdf can be handed: ids in any insertion order
Orders ==
    { q \in UNION { [1..n -> IdPool] : n \in 0..MaxTotes } : NoDuplicates(q) }

InitDoc ==
    /\ pc = "returned"
    /\ menu = {}
    /\ file_no = 1
    /\ current_mode = "UNKNOWN"
    /\ header_index = NoHeader
    /\ row = << >>
    /\ order \in Orders
    /\ totes = [ id \in Range(order) |-> Tote(id) ]
    /\ log = << >>
    /\ render_mode \in {"thumbs", "text", "both"}
    /\ docs = << >>
    /\ exit_code = -1
    /\ ThumbUnused

NextDoc ==
    \/ MainNoTotes
    \/ MainGenerate
    \/ MainGenerateSecond
    \/ MainGenerateFails

SpecDoc == InitDoc /\ [][NextDoc]_vars

LabelIds(doc) == [ i \in 1..Len(doc.labels) |-> doc.labels[i].tote_id ]

Ascending(q) == \A i, j \in 1..Len(q) : i < j => StrLess(q[i], q[j])

\* C10: a successful run writes one document per density (two in mode both,
\* thumbs then text), each with exactly one label per container of the
\* model, in ascending order of container id.
C10_OneLabelPerToteSorted ==
    (pc = "exit" /\ exit_code = 0) =>
        /\ Len(docs) = IF render_mode = "both" THEN 2 ELSE 1
        /\ \A d \in 1..Len(docs) :
              /\ Len(docs[d].labels) = Cardinality(DOMAIN totes)
              /\ Range(LabelIds(docs[d])) = DOMAIN totes
              /\ Ascending(LabelIds(docs[d]))
        /\ render_mode = "both" =>
              /\ docs[1].mode = "thumbs"
              /\ docs[2].mode = "text"
              /\ LabelIds(docs[1]) = LabelIds(docs[2])
        /\ render_mode # "both" => docs[1].mode = render_mode

\* C10 witness: mode both ended well on a model whose insertion order is
\* not the sorted one
C10_Witness ==
    /\ pc = "exit"
    /\ exit_code = 0
    /\ render_mode = "both"
    /\ Len(order) >= 2
    /\ ~Ascending(order)

-----------------------------------------------------------------------------
(* main, whole: collect_input_paths, read_csvs, generate_pdf *)

\* lines 616-620: collect_input_paths raises (no path matches), main returns 2
MainCollectFails ==
    /\ pc = "main"
    /\ exit_code' = 2
    /\ pc' = "exit"
    /\ UNCHANGED << render_mode, docs >>
    /\ ReadIdle

\* lines 617, 622: some path matches; read_csvs starts on the first one
MainCollect ==
    /\ pc = "main"
    /\ file_no' = 1
    /\ pc' = "read"
    /\ UNCHANGED << menu, current_mode, header_index, row, totes, order, log,
                    render_mode, docs, exit_code >>
    /\ ThumbIdle

\* no row of the path being read has been read yet
AtFileStart == \A k \in 1..Len(log) : log[k].file # file_no

\* line 127: open(path) raises (a path that matched but cannot be read);
\* read_csvs has no handler and main calls it outside its try blocks
OpenFails ==
    /\ pc = "read"
    /\ AtFileStart
    /\ pc' = "raised"
    /\ UNCHANGED << file_no, current_mode, header_index, row, totes, order,
                    log >>
    /\ MainIdle

\* the inputs of the whole-run specification
MainMenus ==
    { {PRIMARY_HEADER, EMPTY_HEADER, RowT1Bare, ERowT1},
      {PRIMARY_HEADER, MarkerRow, EmptyHeaderWide, ERowT1},
      {PaddedHeader, BlankRow, RowT1, RowOneCell} }

InitMain ==
    /\ pc = "main"
    /\ menu \in MainMenus
    /\ file_no = 0
    /\ current_mode = "UNKNOWN"
    /\ header_index = NoHeader
    /\ row = << >>
    /\ totes = NoTotes
    /\ order = << >>
    /\ log = << >>
    /\ render_mode \in {"thumbs", "text", "both"}
    /\ docs = << >>
    /\ exit_code = -1
    /\ ThumbUnused

NextMain ==
    \/ MainCollectFails
    \/ MainCollect
    \/ OpenFails
    \/ Next
    \/ NextDoc

SpecMain == InitMain /\ [][NextMain]_vars

\* the documents the chosen mode asks for
Wanted == IF render_mode = "both" THEN 2 ELSE 1

\* C11: main always ends by returning an exit code, never by an error that
\* escapes it, and the code is the one the outcome determines: 2 if no input
\* path resolved, else 1 if ingestion gave no container, else 3 if document
\* generation failed, else 0.
C11_ExitCodeByOutcome ==
    /\ pc # "raised"
    /\ pc = "exit" =>
          exit_code =
             IF file_no = 0 THEN 2
             ELSE IF DOMAIN totes = {} THEN 1
             ELSE IF Len(docs) < Wanted THEN 3
             ELSE 0

-----------------------------------------------------------------------------
(* Thumbnail resolution: fetch_thumbnail and the files of CACHE_DIR.  An   *)
(* image is known by the url it came from, the size cap and its colour     *)
(* mode; what a url serves is fixed, whether a request for it succeeds is  *)
(* not.  A call's environment (env) says which of its system calls fail.   *)

MaxCalls == 2      \* fetch_thumbnail calls in one run of SpecThumb

THUMB_PX == 128    \* thumb_px, the size cap no caller overrides

U_RGBA == HTTP \o << "x" >>     \* serves a picture with an alpha channel
U_P == HTTP \o << "d" >>        \* serves a palette picture
U_JUNK == HTTP \o << "W" >>     \* serves bytes that are no picture

Urls == {U_RGBA, U_P, U_JUNK}

\* the colour mode of what Image.open gives for the bytes the url serves
Remote(url) ==
    CASE url = U_RGBA -> "RGBA"
      [] url = U_P -> "P"
      [] OTHER -> "junk"

Picture(url, px, mode) == [of |-> url, px |-> px, mode |-> mode]

\* a cache file Image.open cannot read
Corrupt == Picture(E, 0, "corrupt")

\* None where an image is expected
NoImage == Picture(E, 0, "None")

\* Image.convert(mode)
convert(img, mode) == [img EXCEPT !.mode = mode]

\* thumb_path: sha1 of the url (taken to be collision-free) and the cap
thumb_path(url, px) == << url, px >>

Remove(c, path) == [ q \in DOMAIN c \ {path} |-> c[q] ]

Envs ==
    [dirs_ok : BOOLEAN, read_ok : BOOLEAN, remove_ok : BOOLEAN,
     net_ok : BOOLEAN, save : {"ok", "fail", "partial"}]

\* what a call gives back; failed is the set of its steps that raised
Outcome(result, c, net, raised, failed) ==
    [result |-> result, cache |-> c, net |-> net, raised |-> raised,
     failed |-> failed]

\* a variant of download whose request is made outside the try block
download_unguarded(c, url, px, env) ==
    IF ~env.net_ok THEN Outcome(NoImage, c, TRUE, TRUE, {"request"})
    ELSE IF Remote(url) = "junk"
    THEN Outcome(NoImage, c, TRUE, FALSE, {"decode"})
    ELSE LET rgb == IF Remote(url) \notin {"RGB", "RGBA"}
                    THEN Picture(url, px, "RGB")
                    ELSE Picture(url, px, Remote(url))
         IN  Outcome(rgb, Put(c, thumb_path(url, px), rgb), TRUE, FALSE, {})

\* lines 270-286, the download
download(c, url, px, env) ==
    IF ~env.net_ok THEN Outcome(NoImage, c, TRUE, FALSE, {"request"})
    ELSE IF Remote(url) = "junk"
    THEN Outcome(NoImage, c, TRUE, FALSE, {"decode"})
    ELSE LET img == Picture(url, px, Remote(url))
             rgb == IF img.mode \notin {"RGB", "RGBA"}
                    THEN convert(img, "RGB") ELSE img
             path == thumb_path(url, px)
             saved == CASE env.save = "ok" -> Put(c, path, rgb)
                        [] env.save = "partial" -> Put(c, path, Corrupt)
                        [] OTHER -> c
         IN  Outcome(rgb, saved, TRUE, FALSE,
                     IF env.save = "ok" THEN {} ELSE {"save"})

\* lines 261-268: the cached file, when there is one and it can be read
cached(c, url, px, env) ==
    LET path == thumb_path(url, px)
        hit == path \in DOMAIN c
        read == hit /\ c[path] # Corrupt /\ env.read_ok
    IN  [read |-> read,
         result |-> IF read THEN convert(c[path], "RGB") ELSE NoImage,
         cache |-> IF hit /\ ~read /\ env.remove_ok THEN Remove(c, path)
                   ELSE c,
         failed |-> IF ~hit \/ read THEN {}
                    ELSE IF env.remove_ok THEN {"read"}
                    ELSE {"read", "remove"}]

\* fetch_thumbnail(url, thumb_px) on the cache c with the library lib
fetch_thumbnail(c, lib, url, px, env) ==
    IF ~lib THEN Outcome(NoImage, c, FALSE, FALSE, {})
    ELSE IF ~env.dirs_ok THEN Outcome(NoImage, c, FALSE, TRUE, {"makedirs"})
    ELSE LET file == cached(c, url, px, env)
             got == download(file.cache, url, px, env)
         IN  IF file.read
             THEN Outcome(file.result, c, FALSE, FALSE, {})
             ELSE [got EXCEPT !.failed = @ \cup file.failed]

\* one call, from any caller
FetchThumbnail ==
    /\ pc = "thumb"
    /\ Len(calls) < MaxCalls
    /\ \E url \in Urls, env \in Envs :
          LET res == fetch_thumbnail(cache, pil, url, THUMB_PX, env)
          IN  /\ cache' = res.cache
              /\ calls' = Append(calls,
                     [url |-> url, px |-> THUMB_PX, before |-> cache,
                      result |-> res.result, net |-> res.net,
                      raised |-> res.raised, failed |-> res.failed])
    /\ UNCHANGED << pc, pil, menu, file_no, current_mode, header_index, row,
                    totes, order, log, render_mode, docs, exit_code >>
    /\ HelperIdle
    /\ LabelIdle

\* what an earlier run can have left in the cache: nothing, or one file
AllFine ==
    [dirs_ok |-> TRUE, read_ok |-> TRUE, remove_ok |-> TRUE, net_ok |-> TRUE,
     save |-> "ok"]

InitialCaches ==
    { << >> } \cup
    { Put(<< >>, thumb_path(u, THUMB_PX), Corrupt) : u \in Urls } \cup
    { download(<< >>, u, THUMB_PX, AllFine).cache : u \in Urls }

InitThumb ==
    /\ pc = "thumb"
    /\ pil \in BOOLEAN
    /\ cache \in InitialCaches
    /\ calls = << >>
    /\ HelperUnused
    /\ LabelUnused
    /\ menu = {}
    /\ file_no = 1
    /\ current_mode = "UNKNOWN"
    /\ header_index = NoHeader
    /\ row = << >>
    /\ totes = NoTotes
    /\ order = << >>
    /\ log = << >>
    /\ render_mode = "unset"
    /\ docs = << >>
    /\ exit_code = -1

NextThumb == FetchThumbnail

SpecThumb == InitThumb /\ [][NextThumb]_vars

\* the cache as call k left it
After(k) == IF k < Len(calls) THEN calls[k + 1].before ELSE cache

\* C12: resolving the same url twice with the same size cap gives the same
\* result both times and makes at most one network request, whatever the
\* first resolution came to.
C12_ResolveTwiceOneFetch ==
    \A i, j \in 1..Len(calls) :
        ( /\ i < j
          /\ calls[i].url = calls[j].url /\ calls[i].px = calls[j].px
          /\ ~calls[i].raised /\ ~calls[j].raised )
        => /\ calls[j].result = calls[i].result
           /\ ~(calls[i].net /\ calls[j].net)

\* C13: a call in which the request, the decode or the read of the cached
\* file fails raises nothing: a failed request or decode gives absent, an
\* unreadable cached file is deleted and a fresh fetch made, and a call that
\* gives absent adds no file to the cache and changes none.
C13_ThumbnailNeverRaises ==
    \A k \in 1..Len(calls) :
        LET e == calls[k]
            path == thumb_path(e.url, e.px)
        IN  /\ "makedirs" \notin e.failed => ~e.raised
            /\ e.failed \cap {"request", "decode"} # {} => e.result = NoImage
            /\ "read" \in e.failed =>
                  /\ e.net
                  /\ ("remove" \notin e.failed /\ e.result = NoImage)
                        => path \notin DOMAIN After(k)
            /\ e.result = NoImage =>
                  \A q \in DOMAIN After(k) :
                      q \in DOMAIN e.before /\ After(k)[q] = e.before[q]

\* C13 witness: a corrupt cached file was deleted and the fresh request
\* failed, and another call failed to decode what it fetched
C13_Witness ==
    \E k, j \in 1..Len(calls) :
        /\ thumb_path(calls[k].url, calls[k].px) \in DOMAIN calls[k].before
        /\ calls[k].failed = {"read", "request"}
        /\ calls[k].result = NoImage
        /\ ~calls[k].raised
        /\ thumb_path(calls[k].url, calls[k].px) \notin DOMAIN After(k)
        /\ calls[j].failed = {"decode"}
        /\ calls[j].result = NoImage

-----------------------------------------------------------------------------
(* Text measurement and wrap_text.  Lengths are in thousandths of a point, *)
(* so that a glyph width (AFM units, 1/1000 em) times a font size is a     *)
(* length.                                                                 *)

MaxLen == 5        \* characters of a text handed to wrap_text or ellipsize

Pt(n) == n * 1000

ELL == "..."       \* the one character U+2026, horizontal ellipsis
TIMES == "x*"      \* the one character U+00D7, multiplication sign
BULLET == "*"      \* the one character U+2022, bullet
EMDASH == "--"     \* the one character U+2014, em dash

\* the advance widths of the standard fonts, for the characters used here
\* (a fixed phrase of the code is one symbol, as wide as its characters)
GlyphWidth(font, ch) ==
    IF font = "Helvetica-Bold"
    THEN CASE ch = " " -> 278
           [] ch = "i" -> 278
           [] ch = "t" -> 333
           [] ch = "W" -> 944
           [] ch = "A" -> 722
           [] ch = "d" -> 611
           [] ch = ELL -> 1000
           [] ch = "(Untitled" -> 4055
           [] ch = "tote)" -> 2166
           [] ch = "Tote:" -> 2444
           [] OTHER -> 556
    ELSE CASE ch = " " -> 278
           [] ch = "i" -> 222
           [] ch = "t" -> 278
           [] ch = "W" -> 944
           [] ch = "A" -> 667
           [] ch = "x" -> 500
           [] ch = TIMES -> 584
           [] ch = ELL -> 1000
           [] ch = BULLET -> 350
           [] ch = EMDASH -> 1000
           [] ch = "Location:" -> 4058
           [] ch = "(untitled)" -> 3890
           [] OTHER -> 556

\* pdfmetrics.stringWidth(text, font, size)
RECURSIVE stringWidth(_, _, _)
stringWidth(text, font, size) ==
    IF text = E THEN 0
    ELSE GlyphWidth(font, Head(text)) * size
         + stringWidth(Tail(text), font, size)

\* " ".join(words)
RECURSIVE Join(_)
Join(words) ==
    IF words = << >> THEN E
    ELSE IF Len(words) = 1 THEN words[1]
    ELSE words[1] \o << " " >> \o Join(Tail(words))

\* lines 294-301: the loop over the words
RECURSIVE wrap_loop(_, _, _, _, _, _)
wrap_loop(words, lines, cur, max_width, font_name, font_size) ==
    IF words = << >> THEN [lines |-> lines, cur |-> cur]
    ELSE LET w == Head(words)
             candidate == Strip(Join(Append(cur, w)))
         IN  IF stringWidth(candidate, font_name, font_size) <= max_width
             THEN wrap_loop(Tail(words), lines, Append(cur, w),
                            max_width, font_name, font_size)
             ELSE wrap_loop(Tail(words),
                            IF cur # << >> THEN Append(lines, Join(cur))
                                           ELSE lines,
                            << w >>, max_width, font_name, font_size)

\* a variant of wrap_text that forgets the line still being filled
wrap_text_unflushed(text, max_width, font_name, font_size) ==
    LET st == wrap_loop(Split(text), << >>, << >>,
                        max_width, font_name, font_size)
    IN  IF st.lines = << >> THEN << E >> ELSE st.lines

\* wrap_text
wrap_text(text, max_width, font_name, font_size) ==
    LET st == wrap_loop(Split(text), << >>, << >>,
                        max_width, font_name, font_size)
        lines == IF st.cur # << >> THEN Append(st.lines, Join(st.cur))
                                   ELSE st.lines
    IN  IF lines = << >> THEN << E >> ELSE lines

\* the texts and widths the helpers are tried on
Texts(alphabet) == UNION { [1..n -> alphabet] : n \in 0..MaxLen }

WrapWidths == {Pt(0) - 1, Pt(0), 2500, 8000, 9440, 15000, Pt(40)}

Fonts == {"Helvetica", "Helvetica-Bold"}

PureRest ==
    /\ menu = {}
    /\ file_no = 1
    /\ current_mode = "UNKNOWN"
    /\ header_index = NoHeader
    /\ row = << >>
    /\ totes = NoTotes
    /\ order = << >>
    /\ log = << >>
    /\ render_mode = "unset"
    /\ docs = << >>
    /\ exit_code = -1
    /\ pil = TRUE /\ cache = << >> /\ calls = << >>
    /\ LabelUnused

PureIdle ==
    /\ UNCHANGED << menu, file_no, current_mode, header_index, row, totes,
                    order, log, render_mode, docs, exit_code, pil, cache,
                    calls, call >>
    /\ LabelIdle

InitWrap ==
    /\ pc = "call"
    /\ call \in [text : Texts({"W", "i", " ", TAB}), max_width : WrapWidths,
                 font_name : Fonts, font_size : {10}]
    /\ ret = << >>
    /\ PureRest

WrapText ==
    /\ pc = "call"
    /\ ret' = wrap_text(call.text, call.max_width, call.font_name,
                        call.font_size)
    /\ pc' = "done"
    /\ PureIdle

NextWrap == WrapText

SpecWrap == InitWrap /\ [][NextWrap]_vars

\* the words of the lines, in order
RECURSIVE WordsOf(_)
WordsOf(lines) ==
    IF lines = << >> THEN << >>
    ELSE Split(Head(lines)) \o WordsOf(Tail(lines))

\* C14: wrap_text returns at least one line, the single empty line for a
\* text without words, and the words of its lines, in order, are exactly the
\* whitespace-delimited words of the text.
C14_WrapKeepsWords ==
    pc = "done" =>
        /\ Len(ret) >= 1
        /\ Split(call.text) = << >> => ret = << E >>
        /\ WordsOf(ret) = Split(call.text)

\* C14 witness: a text with tabs and runs of spaces was broken into several
\* lines, one of them a word wider than the width asked for
C14_Witness ==
    /\ pc = "done"
    /\ Len(ret) >= 2
    /\ TAB \in Range(call.text)
    /\ \E k \in 1..Len(ret) :
          stringWidth(ret[k], call.font_name, call.font_size) > call.max_width
    /\ \E k \in 1..Len(ret) : " " \in Range(ret[k])

-----------------------------------------------------------------------------
(* draw_label.ellipsize *)

\* text[:n]
Prefix(text, n) == SubSeq(text, 1, n)

\* stringWidth(text[:n] + ell) <= max_w
Fits(text, n, max_w, font, size) ==
    stringWidth(Append(Prefix(text, n), ELL), font, size) <= max_w

\* lines 402-407: the binary search, giving lo
RECURSIVE ell_search(_, _, _, _, _, _)
ell_search(text, lo, hi, max_w, font, size) ==
    IF ~(lo < hi) THEN lo
    ELSE LET mid == (lo + hi) \div 2
         IN  IF Fits(text, mid, max_w, font, size)
             THEN ell_search(text, mid + 1, hi, max_w, font, size)
             ELSE ell_search(text, lo, mid, max_w, font, size)

\* a variant of ellipsize that cuts at lo, one character too late
ellipsize_late(text, max_w, font, size) ==
    IF stringWidth(text, font, size) <= max_w THEN text
    ELSE Append(Prefix(text, ell_search(text, 0, Len(text), max_w, font,
                                        size)),
                ELL)

\* ellipsize
ellipsize(text, max_w, font, size) ==
    IF stringWidth(text, font, size) <= max_w THEN text
    ELSE LET lo == ell_search(text, 0, Len(text), max_w, font, size)
         IN  Append(Prefix(text, IF lo - 1 > 0 THEN lo - 1 ELSE 0), ELL)

EllWidths == {Pt(0) - 1, Pt(0), 9999, Pt(10), 12500, 15000, 22000, Pt(40)}

InitEll ==
    /\ pc = "call"
    /\ call \in [text : Texts({"W", "i", " "}), max_w : EllWidths,
                 font : {"Helvetica"}, size : {10, 9}]
    /\ ret = << >>
    /\ PureRest

Ellipsize ==
    /\ pc = "call"
    /\ ret' = ellipsize(call.text, call.max_w, call.font, call.size)
    /\ pc' = "done"
    /\ PureIdle

NextEll == Ellipsize

SpecEll == InitEll /\ [][NextEll]_vars

\* the prefix lengths n for which text[:n] followed by the ellipsis fits
Fitting ==
    { n \in 0..Len(call.text) :
        Fits(call.text, n, call.max_w, call.font, call.size) }

Width(s) == stringWidth(s, call.font, call.size)

\* C15: ellipsize returns the text unchanged when it fits; otherwise the
\* longest prefix that fits together with the ellipsis, followed by the
\* ellipsis (the ellipsis alone when no such prefix has a character), so the
\* result fits whenever the ellipsis alone does.
C15_EllipsizeLongestPrefix ==
    pc = "done" =>
        /\ Width(call.text) <= call.max_w => ret = call.text
        /\ Width(call.text) > call.max_w =>
              /\ Fitting # {} =>
                    ret = Append(Prefix(call.text, SetMax(Fitting)), ELL)
              /\ Fitting \subseteq {0} => ret = << ELL >>
        /\ call.max_w >= Width(<< ELL >>) => Width(ret) <= call.max_w

\* C15 witness: a text that does not fit was cut to a prefix of two or more
\* characters, with more than one character dropped
C15_Witness ==
    /\ pc = "done"
    /\ Width(call.text) > call.max_w
    /\ Len(ret) >= 3
    /\ Len(ret) < Len(call.text)
    /\ Last(ret) = ELL
    /\ Width(ret) <= call.max_w

-----------------------------------------------------------------------------
(* read_csvs: the header state machine across rows and files *)

\* the column each name has in the row once its cells are trimmed
TrimmedIndex(r) == BuildHeaderIndex(Norm(r))

\* the last row read is a header row of the file still being read
AfterHeader(kind) ==
    /\ log # << >>
    /\ Last(log).kind = "header"
    /\ Last(log).file = file_no
    /\ sniff_headers(Last(log).row) = kind

\* C16: after a row that matches the primary header once its cells are
\* trimmed of whitespace and a byte-order mark, the state is PRIMARY and the
\* header mapping gives each primary field name the column of the cell that
\* names it in this row.
C16_HeaderIndexFromTrimmedCells ==
    AfterHeader("PRIMARY") =>
        /\ current_mode = "PRIMARY"
        /\ \A h \in Range(PRIMARY_HEADER) \cap Range(Norm(Last(log).row)) :
              /\ Has(header_index, h)
              /\ header_index[h] = TrimmedIndex(Last(log).row)[h]

\* the row just read is the first one read from its file
FirstOfFile(q) == \A k \in 1..(Len(q) - 1) : q[k].file # Last(q).file

\* C17: a data row read in state UNKNOWN or EMPTY_PENDING_HEADER changes
\* neither the model nor the state; every file starts in state UNKNOWN with
\* an empty header mapping, whatever state the file before it ended in.
C17_NoHeaderNoEffect ==
    [][ /\ ( /\ ReadsData
             /\ current_mode \in {"UNKNOWN", "EMPTY_PENDING_HEADER"} ) =>
              /\ totes' = totes
              /\ order' = order
              /\ current_mode' = current_mode
              /\ header_index' = header_index
        /\ file_no' # file_no =>
              /\ current_mode' = "UNKNOWN"
              /\ header_index' = NoHeader
        /\ (log' # log /\ FirstOfFile(log')) =>
              /\ Last(log').mode = "UNKNOWN"
              /\ Last(log').hdr = NoHeader
      ]_vars

\* C17 witness: a row that was taken as PRIMARY data in the first file was
\* read again at the start of the second and ignored
C17_Witness ==
    /\ log # << >>
    /\ Last(log).kind = "data"
    /\ Last(log).mode = "UNKNOWN"
    /\ Last(log).file = 2
    /\ FirstOfFile(log)
    /\ \E k \in 1..Len(log) :
          /\ log[k].file = 1
          /\ log[k].kind = "data"
          /\ log[k].mode = "PRIMARY"
          /\ log[k].row = Last(log).row
          /\ HasId(log[k].hdr, log[k].row)
          /\ IdCell(log[k].hdr, log[k].row) \in DOMAIN totes

-----------------------------------------------------------------------------
(* draw_label: geometry.  The page is US letter (reportlab's default and   *)
(* the default of --page); lengths are in thousandths of a point.          *)

inch == 72000
PageWidth == 612000
PageHeight == 792000

margin == inch \div 2
content_width == PageWidth - 2 * margin
top_y0 == PageHeight - margin
qr_side == (3 * inch) \div 2
reserved_right == qr_side + inch \div 4
gutter == (15 * inch) \div 100
pad == Pt(4)
max_y == margin + Pt(24)
qr_bottom_y == top_y0 - qr_side
thumb_side == (7 * inch) \div 10

font_body == "Helvetica"
font_bold == "Helvetica-Bold"

Max(S) == SetMax(S)

\* str(n)
RECURSIVE NatStr(_)
NatStr(n) ==
    IF n < 10 THEN << Digits[n + 1] >>
    ELSE NatStr(n \div 10) \o << Digits[(n % 10) + 1] >>

IntStr(n) == IF n < 0 THEN << "-" >> \o NatStr(0 - n) ELSE NatStr(n)

\* f"{item.quantity} x {item.title}", "(untitled)" for an empty title
title_text(item) ==
    IntStr(item.quantity) \o << " ", TIMES, " " >> \o
    (IF item.title # E THEN item.title ELSE << "(untitled)" >>)

\* (item.description or "").strip()
desc_text(item) == Strip(item.description)

\* the columns of a grid and the width of one, for a cursor at at_y
Cols(mode) == IF mode = "text" THEN 4 ELSE 5

Narrowed(qr, at_y) == qr /\ at_y > qr_bottom_y

\* lines 420 and 493: narrowed while the cursor is above the QR's bottom
row_available_width(qr, at_y) ==
    IF Narrowed(qr, at_y) THEN content_width - reserved_right
    ELSE content_width

col_width(mode, qr, at_y) ==
    (row_available_width(qr, at_y) - gutter * (Cols(mode) - 1))
        \div Cols(mode)

\* the height of the text of a thumbs cell (text_h)
text_h(item, col_w) ==
    LET title_lines == wrap_text(title_text(item), col_w - 2 * pad,
                                 font_body, 10)
        desc_lines == IF desc_text(item) # E
                      THEN wrap_text(desc_text(item), col_w - 2 * pad,
                                     font_body, 9)
                      ELSE << >>
    IN  Len(title_lines) * Pt(11) + Len(desc_lines) * Pt(10)

\* measure_cell and the cell_h of draw_cell, given what the fetch returned
cell_h_thumbs(item, col_w, thumb_img) ==
    LET thumb_h == IF thumb_img # NoImage THEN thumb_side ELSE 0
        img_space == IF thumb_h # 0 THEN thumb_h + Pt(4) ELSE 0
    IN  pad + img_space + text_h(item, col_w) + pad

\* measure_cell_text and the cell_h of draw_cell_text
cell_h_text(item, col_w) ==
    LET text_w == col_w - 2 * pad
        title_line == ellipsize(title_text(item), text_w, font_body, 10)
        desc_line == IF desc_text(item) # E
                     THEN ellipsize(desc_text(item), text_w, font_body, 9)
                     ELSE E
    IN  pad + (Pt(11) + (IF desc_line # E THEN Pt(10) ELSE 0)) + pad

-----------------------------------------------------------------------------
(* draw_label as a step machine inside generate_pdf: the head of a label,  *)
(* one step per grid row, one per child section, the final page break.     *)
(* step holds what the last step put on the canvas.                        *)

\* what fetch_thumbnail can meet during a pass
PassEnvs ==
    { AllFine, [AllFine EXCEPT !.net_ok = FALSE],
      [AllFine EXCEPT !.dirs_ok = FALSE] }

\* the container the label being drawn is for, and the keys in label order
Keys == label_keys
tote == totes[Keys[tote_no]]

\* totes_map.get(child_id)
child_of(k) == tote.children[k]

\* a variant of grid_items that follows a child's own children as well
grid_items_nested ==
    IF section = 0 THEN tote.items
    ELSE IF child_of(section) \in DOMAIN totes
         THEN LET child == totes[child_of(section)]
                  below == [ k \in 1..Len(child.children) |->
                               IF child.children[k] \in DOMAIN totes
                               THEN totes[child.children[k]].items
                               ELSE << >> ]
              IN  child.items \o
                  (IF below = << >> THEN << >> ELSE below[1])
         ELSE << >>

\* the items of the grid being rendered: tote.items, or the child's
grid_items ==
    IF section = 0 THEN tote.items
    ELSE IF child_of(section) \in DOMAIN totes
         THEN totes[child_of(section)].items
         ELSE << >>

\* c.drawString and c.showPage, as they are recorded
String(tag, page, at_y, text) ==
    [op |-> "string", tag |-> tag, page |-> page, y |-> at_y, text |-> text]

ShowPage(page) == [op |-> "showPage", page |-> page]

Cell(page, col, y_top, col_w, cell_h, thumb) ==
    [op |-> "cell", page |-> page, col |-> col,
     x_left |-> margin + col * (col_w + gutter), y_top |-> y_top,
     col_w |-> col_w, cell_h |-> cell_h, thumb |-> thumb]

\* requests[url]: the network requests made for the url in this pass, and
\* whether one of them failed
Count(reqs, url, failed) ==
    LET old == IF url \in DOMAIN reqs THEN reqs[url]
               ELSE [n |-> 0, failed |-> FALSE]
    IN  Put(reqs, url, [n |-> old.n + 1, failed |-> old.failed \/ failed])

\* thumb_img = fetch_thumbnail(item.image_url) if item.image_url else None,
\* for the items of a row from the k-th on; envs[k] is what call k meets
RECURSIVE fetch_row(_, _, _, _, _)
fetch_row(acc, lib, items, envs, k) ==
    IF k > Len(items) \/ acc.raised THEN acc
    ELSE IF ~Truthy(items[k].image_url)
    THEN fetch_row([acc EXCEPT !.results = Append(@, NoImage)],
                   lib, items, envs, k + 1)
    ELSE LET url == items[k].image_url
             res == fetch_thumbnail(acc.cache, lib, url, THUMB_PX, envs[k])
         IN  fetch_row([cache |-> res.cache,
                        results |-> Append(acc.results, res.result),
                        requests |-> IF res.net
                                     THEN Count(acc.requests, url,
                                                res.result = NoImage)
                                     ELSE acc.requests,
                        raised |-> res.raised],
                       lib, items, envs, k + 1)

Fetching(c, reqs) ==
    [cache |-> c, results |-> << >>, requests |-> reqs, raised |-> FALSE]

\* the positions of a row whose item has an image url
WithUrl(items) == { k \in 1..Len(items) : Truthy(items[k].image_url) }

\* items[item_i : item_i + cols]
Slice(items, from, n) ==
    SubSeq(items, from + 1, IF from + n < Len(items) THEN from + n
                            ELSE Len(items))

\* a variant of overflows that looks at the cursor alone
overflows_cursor_only(at_y, h) == at_y < max_y

\* if y - row_h < max_y
overflows(at_y, h) == at_y - h < max_y

\* lines 469-474 and 528-533: the page break and the continuation header
page_break(page) ==
    << ShowPage(page),
       String("cont", page + 1, top_y0, tote.tote_id) >>

\* a row of either grid: measured heights, then the break, then the cells
grid_row(heights, drawn_heights, thumbs) ==
    LET cw == col_width(render_mode, qr_drawn, y)
        row_h == Max(Range(heights) \cup {0})
        broke == overflows(y, row_h)
        page == IF broke THEN page_no + 1 ELSE page_no
        y_top == IF broke THEN top_y0 - Pt(22) ELSE y
    IN  [kind |-> "row", section |-> section, first |-> item_i,
         items |-> Slice(grid_items, item_i, Cols(render_mode)),
         y_check |-> y, page_check |-> page_no, col_width |-> cw,
         row_h |-> row_h, broke |-> broke, page |-> page, y_top |-> y_top,
         events |->
            (IF broke THEN page_break(page_no) ELSE << >>) \o
            [ k \in 1..Len(drawn_heights) |->
                Cell(page, k - 1, y_top, cw, drawn_heights[k], thumbs[k]) ]]

\* the cursor and the position after a row
AfterRow(r) ==
    /\ step' = r
    /\ y' = r.y_top - (r.row_h + Pt(6))
    /\ page_no' = r.page
    /\ item_i' = item_i + Cols(render_mode)
    /\ pc' = IF item_i' < Len(grid_items) THEN "grid" ELSE "section"

PassFrame ==
    /\ UNCHANGED << menu, file_no, current_mode, header_index, row, totes,
                    order, log, render_mode, docs, exit_code, pil, calls,
                    label_keys >>
    /\ HelperIdle

\* lines 418-479: one iteration of render_items_grid_thumbs
GridRowThumbs ==
    /\ pc = "grid"
    /\ render_mode # "text"
    /\ item_i < Len(grid_items)
    /\ LET row_items == Slice(grid_items, item_i, 5)
           cw == col_width(render_mode, qr_drawn, y)
       IN  \E em, ed \in [WithUrl(row_items) -> PassEnvs] :
             LET m == fetch_row(Fetching(cache, requests), pil, row_items,
                                em, 1)
                 d == fetch_row(Fetching(m.cache, m.requests), pil,
                                row_items, ed, 1)
                 heights == [ k \in 1..Len(row_items) |->
                                cell_h_thumbs(row_items[k], cw, m.results[k]) ]
                 drawn == [ k \in 1..Len(row_items) |->
                                cell_h_thumbs(row_items[k], cw, d.results[k]) ]
                 thumbs == [ k \in 1..Len(row_items) |->
                                d.results[k] # NoImage ]
             IN  IF m.raised
                 THEN /\ pc' = "failed"
                      /\ cache' = m.cache
                      /\ requests' = m.requests
                      /\ UNCHANGED << y, page_no, item_i, step >>
                 ELSE IF d.raised
                 THEN /\ pc' = "failed"
                      /\ cache' = d.cache
                      /\ requests' = d.requests
                      /\ UNCHANGED << y, page_no, item_i, step >>
                 ELSE /\ cache' = d.cache
                      /\ requests' = d.requests
                      /\ AfterRow(grid_row(heights, drawn, thumbs))
    /\ UNCHANGED << tote_no, section, qr_drawn >>
    /\ PassFrame

\* lines 491-538: one iteration of render_items_grid_text
GridRowText ==
    /\ pc = "grid"
    /\ render_mode = "text"
    /\ item_i < Len(grid_items)
    /\ LET row_items == Slice(grid_items, item_i, 4)
           cw == col_width(render_mode, qr_drawn, y)
           heights == [ k \in 1..Len(row_items) |->
                          cell_h_text(row_items[k], cw) ]
       IN  AfterRow(grid_row(heights, heights,
                             [ k \in 1..Len(row_items) |-> FALSE ]))
    /\ UNCHANGED << tote_no, section, qr_drawn, cache, requests >>
    /\ PassFrame

\* lines 413-416 and 484-487: the grid of a container without items
GridEmpty ==
    /\ pc = "grid"
    /\ grid_items = << >>
    /\ step' = [kind |-> "empty", section |-> section,
                events |-> << String("none", page_no, y, E) >>]
    /\ y' = y - Pt(14)
    /\ pc' = "section"
    /\ UNCHANGED << tote_no, section, qr_drawn, page_no, item_i, cache, requests >>
    /\ PassFrame

\* the lines of one wrapped text, drawn from at_y downwards
Lines(tag, lines, at_y, dy, lift) ==
    [ k \in 1..Len(lines) |->
        String(tag, 0, at_y - (k - 1) * dy - lift, lines[k]) ]

\* lines 374-381: one entry of the "Sub totes" index per child
index_line(child_id) ==
    LET child_title == IF child_id \in DOMAIN totes
                       THEN totes[child_id].title ELSE E
    IN  << BULLET, " " >> \o child_id \o
        (IF child_title # E THEN << " ", EMDASH, " " >> \o child_title ELSE E)

\* the lines of all entries, one after the other
RECURSIVE Concat(_)
Concat(seqs) ==
    IF seqs = << >> THEN << >> ELSE Head(seqs) \o Concat(Tail(seqs))

\* lines 374-381: every wrapped line of every entry is drawn at the cursor,
\* which then moves down by 12
index_lines(children, avail_width, at_y) ==
    LET wrapped == Concat([ k \in 1..Len(children) |->
                              wrap_text(index_line(children[k]), avail_width,
                                        font_body, 10) ])
    IN  [events |-> Lines("index", wrapped, at_y, Pt(12), 0),
         y |-> at_y - Len(wrapped) * Pt(12)]

\* lines 316-388: QR, title, id, location, index of sub totes, "Items:"
head(t, lib) ==
    LET qr == Truthy(t.qrdata) /\ lib
        avail_width == content_width - (IF qr THEN reserved_right ELSE 0)
        title_lines ==
            wrap_text(IF t.title # E THEN t.title
                      ELSE << "(Untitled", " ", "tote)" >>,
                      avail_width, font_bold, 24)
        y1 == top_y0 - Len(title_lines) * Pt(26)
        id_lines == wrap_text(<< "Tote:", " " >> \o t.tote_id, avail_width,
                              font_bold, 16)
        y2 == y1 - Len(id_lines) * Pt(18)
        loc_lines == IF t.location # E
                     THEN wrap_text(<< "Location:", " " >> \o t.location,
                                    avail_width, font_body, 10)
                     ELSE << >>
        y3 == IF t.location # E
              THEN y2 - Len(loc_lines) * Pt(14) - Pt(2)
              ELSE y2 - Pt(8)
        y4 == y3 - Pt(12)
        y5 == IF t.children # << >> THEN y4 - Pt(16) ELSE y4
        index == index_lines(t.children, avail_width, y5)
        y6 == index.y - Pt(14)
    IN  [qr_drawn |-> qr,
         y |-> y6 - Pt(16),
         events |->
            Lines("title", title_lines, top_y0, Pt(26), Pt(10)) \o
            Lines("id", id_lines, y1, Pt(18), 0) \o
            Lines("location", loc_lines, y2, Pt(14), 0) \o
            (IF t.children # << >>
             THEN << String("subtotes", 0, y4, E) >> ELSE << >>) \o
            index.events \o
            << String("items", 0, y6, E) >>]

\* generate_pdf line 585-586 and draw_label lines 310-394
BeginLabel ==
    /\ pc = "label"
    /\ tote_no <= Len(Keys)
    /\ LET h == head(tote, pil)
       IN  /\ qr_drawn' = h.qr_drawn
           /\ y' = h.y
           /\ step' = [kind |-> "head", events |-> h.events]
    /\ page_no' = 0
    /\ section' = 0
    /\ item_i' = 0
    /\ pc' = "grid"
    /\ UNCHANGED << tote_no, cache, requests >>
    /\ PassFrame

\* lines 548-568: the header of the next child's section
ChildSection ==
    /\ pc = "section"
    /\ section < Len(tote.children)
    /\ LET child_id == child_of(section + 1)
           header == << "Sub tote:", " " >> \o child_id \o
                     (IF child_id \in DOMAIN totes
                         /\ totes[child_id].title # E
                      THEN << " ", EMDASH, " " >> \o totes[child_id].title
                      ELSE E)
           broke == y - (Pt(16) + Pt(16)) < max_y
           page == IF broke THEN page_no + 1 ELSE page_no
           at_y == IF broke THEN top_y0 - Pt(22) ELSE y - Pt(16)
       IN  /\ step' = [kind |-> "child", section |-> section + 1,
                       events |->
                          (IF broke THEN page_break(page_no) ELSE << >>) \o
                          << String("child", page, at_y, header) >>]
           /\ y' = at_y - Pt(16)
           /\ page_no' = page
    /\ section' = section + 1
    /\ item_i' = 0
    /\ pc' = "grid"
    /\ UNCHANGED << tote_no, qr_drawn, cache, requests >>
    /\ PassFrame

\* line 576: the page break that ends the label
FinishLabel ==
    /\ pc = "section"
    /\ section = Len(tote.children)
    /\ step' = [kind |-> "finish", events |-> << ShowPage(page_no) >>]
    /\ tote_no' = tote_no + 1
    /\ pc' = "label"
    /\ UNCHANGED << section, item_i, y, page_no, qr_drawn, cache, requests >>
    /\ PassFrame

\* line 588: c.save()
PassDone ==
    /\ pc = "label"
    /\ tote_no > Len(Keys)
    /\ pc' = "saved"
    /\ UNCHANGED << tote_no, section, item_i, y, page_no, qr_drawn, step, cache,
                    requests >>
    /\ PassFrame

\* the models a pass is run on
MaxItems == 80     \* items of the largest container

ItemPlain == ToteItem(<< "W" >>, E, 3, None)
ItemDesc == ToteItem(<< "A" >>, << "d" >>, 12, None)
ItemPic == ToteItem(<< "W" >>, E, 1, U_RGBA)
ItemBad == ToteItem(E, << "d", " ", "d" >>, 2, U_JUNK)

Items(n, pattern) ==
    [ k \in 1..n |-> pattern[((k - 1) % Len(pattern)) + 1] ]

\* one container with a QR payload and items enough for several pages
Big ==
    Put(NoTotes, T1,
        [Tote(T1) EXCEPT
            !.title = << "A" >>, !.location = << "L" >>,
            !.qrdata = << "Q" >>,
            !.items = Items(MaxItems, << ItemPic, ItemPlain, ItemDesc,
                                         ItemPlain, ItemPlain >>)])

\* a container without items and its child, one of whose pictures cannot
\* be had
Family ==
    Put(Put(NoTotes, T1, [Tote(T1) EXCEPT !.children = << T2 >>]),
        T2, [Tote(T2) EXCEPT
                !.title = << "B" >>, !.qrdata = << "Q" >>,
                !.parent_id = T1,
                !.items = Items(MaxItems, << ItemBad, ItemPlain, ItemDesc,
                                             ItemPlain, ItemPlain >>)])

\* what build_links leaves of containers that name a parent
Linked(ts, ord) == build_links(ts, ord).totes

\* two containers, each the parent of the other
Cycle ==
    Linked(Put(Put(NoTotes, T1, [Tote(T1) EXCEPT !.parent_id = T2,
                                                 !.items = << ItemPlain >>]),
               T2, [Tote(T2) EXCEPT !.parent_id = T1,
                                    !.items = << ItemDesc, ItemPic >>]),
           << T1, T2 >>)

\* a container that names itself as its parent
Selfish ==
    Linked(Put(NoTotes, T1, [Tote(T1) EXCEPT !.parent_id = T1,
                                             !.items = << ItemDesc >>]),
           << T1 >>)

\* a container, its child and the child's child
Chain ==
    Linked(Put(Put(Put(NoTotes, T1, Tote(T1)),
                   T2, [Tote(T2) EXCEPT !.parent_id = T1,
                                        !.items = << ItemPlain >>]),
               T9, [Tote(T9) EXCEPT !.parent_id = T2,
                                    !.items = << ItemDesc >>]),
           << T1, T2, T9 >>)

MaxKids == 53      \* containers that name one container as their parent

Kid(k) == << "T" >> \o NatStr(k + 9)

\* the file names the kept containers from the last down, then their parent
KidsOrder == [ k \in 1..MaxKids |-> Kid(MaxKids + 1 - k) ] \o << T1 >>

\* a container without a title and the containers kept in it
Crowd ==
    [ id \in Range(KidsOrder) |->
        IF id = T1
        THEN [Tote(T1) EXCEPT !.children = SubSeq(KidsOrder, 1, MaxKids)]
        ELSE [Tote(id) EXCEPT !.parent_id = T1] ]

InitPass ==
    /\ pc = "label"
    /\ \/ /\ totes = Big
          /\ order = << T1 >>
          /\ cache \in { << >>,
                          download(<< >>, U_RGBA, THUMB_PX, AllFine).cache }
       \/ /\ totes = Family
          /\ order = << T2, T1 >>
          /\ cache = << >>
       \/ /\ totes = Cycle
          /\ order = << T1, T2 >>
          /\ cache = << >>
       \/ /\ totes = Selfish
          /\ order = << T1 >>
          /\ cache = << >>
       \/ /\ totes = Chain
          /\ order = << T1, T2, T9 >>
          /\ cache = << >>
       \/ /\ totes = Crowd
          /\ order = KidsOrder
          /\ cache = << >>
          /\ render_mode = "thumbs"
          /\ pil = TRUE
    /\ render_mode \in {"thumbs", "text"}
    /\ pil \in BOOLEAN
    /\ calls = << >>
    /\ HelperUnused
    /\ label_keys = sorted(order)
    /\ tote_no = 1
    /\ section = 0
    /\ item_i = 0
    /\ y = 0
    /\ page_no = 0
    /\ qr_drawn = FALSE
    /\ step = NoStep
    /\ requests = << >>
    /\ menu = {}
    /\ file_no = 1
    /\ current_mode = "UNKNOWN"
    /\ header_index = NoHeader
    /\ row = << >>
    /\ log = << >>
    /\ docs = << >>
    /\ exit_code = -1

NextPass ==
    \/ BeginLabel
    \/ GridRowThumbs
    \/ GridRowText
    \/ GridEmpty
    \/ ChildSection
    \/ FinishLabel
    \/ PassDone

SpecPass == InitPass /\ [][NextPass]_vars

\* generate_pdf is one loop run to its end: while it has neither saved the
\* document nor raised, its next step is taken
Running == pc \notin {"saved", "failed"}

SpecPassLive == SpecPass /\ ([]<>~Running \/ []<><<NextPass>>_vars)

-----------------------------------------------------------------------------
(* Page breaks inside a grid                                               *)

\* the cells a row step drew
CellsOf(r) == { k \in 1..Len(r.events) : r.events[k].op = "cell" }

\* C18: in both grid renderers a row whose measured height does not fit
\* between the cursor and the bottom limit is preceded by a page break and
\* the continuation header of the label's own container, and is drawn from
\* the reset cursor; a row that fits is drawn at the cursor, and no row is
\* drawn on the page where it overflowed
C18_OverflowBreaksBeforeRow ==
    step.kind = "row" =>
        /\ step.broke <=> step.y_check - step.row_h < max_y
        /\ CellsOf(step) # {}
        /\ step.broke =>
              /\ Len(step.events) > 2
              /\ step.events[1] = ShowPage(step.page_check)
              /\ step.events[2] = String("cont", step.page_check + 1, top_y0,
                                         Keys[tote_no])
              /\ CellsOf(step) = 3..Len(step.events)
              /\ \A k \in CellsOf(step) :
                    /\ step.events[k].page = step.page_check + 1
                    /\ step.events[k].y_top = top_y0 - Pt(22)
        /\ ~step.broke =>
              /\ CellsOf(step) = 1..Len(step.events)
              /\ \A k \in CellsOf(step) :
                    /\ step.events[k].page = step.page_check
                    /\ step.events[k].y_top = step.y_check
        /\ \A k \in CellsOf(step) :
              step.events[k].y_top - step.row_h >= max_y

\* a row of a child's section overflowed and was moved to a new page
C18_Witness ==
    /\ step.kind = "row"
    /\ step.broke
    /\ step.section > 0
    /\ tote.tote_id # child_of(step.section)

-----------------------------------------------------------------------------
(* Column width beside the QR code                                         *)

\* C19: a row has the narrowed column width only on the first page of a
\* label whose QR code was drawn, with its top above the QR's bottom edge
C19_NarrowOnlyBesideQR ==
    step.kind = "row" =>
        (step.col_width < col_width(render_mode, FALSE, step.y_top) =>
            /\ qr_drawn
            /\ step.page = 0
            /\ step.y_top > qr_bottom_y)

-----------------------------------------------------------------------------
(* Network requests of one pass                                            *)

\* C20: a url whose fetch failed is requested at most once in a pass
C20_NoRetryInPass ==
    \A url \in DOMAIN requests :
        requests[url].failed => requests[url].n <= 1

-----------------------------------------------------------------------------
(* One level of nesting                                                    *)

\* the items the k-th section of the label being drawn is for: the
\* container's own (k = 0), or those of the k-th id of its children list
ItemsOfSection(k) ==
    LET own == totes[Keys[tote_no]]
    IN  IF k = 0 THEN own.items
        ELSE IF own.children[k] \in DOMAIN totes
             THEN totes[own.children[k]].items
             ELSE << >>

\* a grid step shows items of the container or of one of its children
GridOfOwnOrChild ==
    step.kind \in {"row", "empty"} =>
        /\ step.section \in 0..Len(totes[Keys[tote_no]].children)
        /\ step.kind = "empty" => ItemsOfSection(step.section) = << >>
        /\ step.kind = "row" =>
              /\ step.items # << >>
              /\ step.first + Len(step.items)
                    <= Len(ItemsOfSection(step.section))
              /\ step.items =
                    SubSeq(ItemsOfSection(step.section), step.first + 1,
                           step.first + Len(step.items))
              /\ Cardinality(CellsOf(step)) = Len(step.items)
              /\ \/ Len(step.items) = Cols(render_mode)
                 \/ step.first + Len(step.items)
                       = Len(ItemsOfSection(step.section))

\* sections come in children-list order, and a label ends with a page
\* break after its last child's section
SectionsInOrder ==
    /\ section' # section =>
          \/ section' = section + 1 /\ step'.kind = "child"
          \/ section' = 0 /\ step'.kind = "head"
    /\ tote_no' # tote_no =>
          /\ tote_no' = tote_no + 1
          /\ section = Len(totes[Keys[tote_no]].children)
          /\ step'.events = << ShowPage(page_no) >>

\* the loop can take its next step: a label to begin or the document to
\* save, a row or the placeholder of an empty grid, a child's section or
\* the end of the label
CanStep ==
    \/ pc = "label"
    \/ pc = "grid" /\ (grid_items = << >> \/ item_i < Len(grid_items))
    \/ pc = "section" /\ section <= Len(totes[Keys[tote_no]].children)

\* C21: a label draws a grid for its container and for each id of its
\* children list, in that order, never for a child's children; the pass
\* ends, every label with one final page break, also when parent ids form
\* a cycle
C21_OneLevelNesting ==
    /\ []GridOfOwnOrChild
    /\ [][SectionsInOrder]_vars
    /\ [](Running => CanStep)
    /\ <>(pc \in {"saved", "failed"})

\* the pass over two containers that are each other's parent has ended
C21_Witness ==
    /\ pc = "saved"
    /\ \E a, b \in DOMAIN totes :
          /\ a # b
          /\ a \in Range(totes[b].children)
          /\ b \in Range(totes[a].children)

-----------------------------------------------------------------------------
(* Row height in thumbs mode                                               *)

\* C22: in thumbs mode the height a row advances the cursor by is at least
\* the height of every cell drawn in the row
C22_RowHeightCoversCells ==
    (step.kind = "row" /\ render_mode # "text") =>
        \A k \in CellsOf(step) : step.events[k].cell_h <= step.row_h

-----------------------------------------------------------------------------
(* read_csvs: the column a field of a PRIMARY data row is read from        *)

\* every cell of the header in force names its column exactly
CleanHeader == \A h \in DOMAIN header_index : Norm(<< h >>) = << h >>

\* the cell of the row under the header cell that names the field, trimmed,
\* and the empty string when no header cell names it
Field(r, name) ==
    IF Has(header_index, name) THEN Strip(At(r, header_index[name])) ELSE E

\* C23: a PRIMARY data row gives a container's unset title and location and
\* the item it adds the values of the columns whose header cells name those
\* fields, and the empty value where the header has no such cell
C23_FieldsFromNamedColumns ==
    [][ ( /\ ReadsData
          /\ current_mode = "PRIMARY"
          /\ CleanHeader
          /\ pc' # "raised"
          /\ HasId(header_index, row') ) =>
            LET id == IdCell(header_index, row')
                was == IF id \in DOMAIN totes THEN totes[id] ELSE Tote(id)
                now == totes'[id]
            IN  /\ ~Truthy(was.title) =>
                      now.title = Field(row', TOTE_TITLE)
                /\ ~Truthy(was.location) =>
                      now.location = Field(row', TOTE_LOCATION)
                /\ Len(now.items) > Len(was.items) =>
                      /\ Last(now.items).title = Field(row', ITEM_TITLE)
                      /\ Last(now.items).description =
                            Field(row', ITEM_DESCRIPTION)
      ]_vars

-----------------------------------------------------------------------------
(* The bottom limit of a page                                              *)

\* where the cursor was when the step drew the event: a title line is drawn
\* 10 points below the cursor, every other string at it, a cell from it down
CursorAt(e) ==
    IF e.op = "cell" THEN e.y_top
    ELSE IF e.tag = "title" THEN e.y + Pt(10)
    ELSE e.y

\* C24: within a label nothing is drawn with the cursor below the bottom
\* limit of the page, margin + 24
C24_NothingBelowLimit ==
    \A k \in 1..Len(step.events) :
        step.events[k].op # "showPage" => CursorAt(step.events[k]) >= max_y

====
